---------------------------- MODULE Spec2Model ----------------------------
(***************************************************************************)
(* Model of function_tools/management/commands/startfunction.py: the       *)
(* template-instantiation command (PatchedTemplateCommand and its subclass *)
(* Command).  One run of Command.handle is a pipeline over a filesystem;   *)
(* the model keeps the filesystem, the command object's fields and the     *)
(* position of the os.walk loop.                                           *)
(*                                                                         *)
(* A Python str is a sequence of one-character strings; None is the        *)
(* one-element sequence <<"None">>, which is no such sequence.             *)
(***************************************************************************)
EXTENDS Integers, Sequences, FiniteSets, TLC

---------------------------------------------------------------------------
(* Python str operations, computed as CPython computes them.               *)

None == <<"None">>

\* The characters the model uses, in code-point order (str comparison).
Alphabet ==
    << " ", ",", "-", ".", "/", "1", "2", "3", "4", "5", "6", "7", "8", "9", ":",
       "A", "B", "D", "P", "W", "_",
       "a", "b", "c", "d", "e", "f", "g", "h", "i", "j", "k", "l", "m", "n",
       "o", "p", "r", "s", "t", "u", "w", "x", "y", "z" >>

Ord(c) == CHOOSE i \in 1..Len(Alphabet) : Alphabet[i] = c

\* s[i:] with a 0-based Python index i >= 0
From(s, i) == SubSeq(s, i + 1, Len(s))

\* s[:-n]
DropLast(s, n) == SubSeq(s, 1, Len(s) - n)

\* s[i:i+len(sub)] == sub, i a 1-based position
MatchAt(s, sub, i) ==
    /\ i + Len(sub) - 1 <= Len(s)
    /\ SubSeq(s, i, i + Len(sub) - 1) = sub

StartsWith(s, pre) == MatchAt(s, pre, 1)

EndsWith(s, suf) == Len(suf) <= Len(s) /\ MatchAt(s, suf, Len(s) - Len(suf) + 1)

\* `sub in s`
Contains(s, sub) == \E i \in 1..(Len(s) + 1) : MatchAt(s, sub, i)

\* s.find(sub, start): the first 1-based position >= start where sub occurs, else 0
Find(s, sub, start) ==
    LET hits == {i \in start..(Len(s) + 1) : MatchAt(s, sub, i)}
    IN  IF hits = {} THEN 0 ELSE CHOOSE i \in hits : \A j \in hits : i <= j

\* A variant of str.replace that replaces the first occurrence only.
ReplaceFirstOnly(s, old, new) ==
    LET i == Find(s, old, 1)
    IN  IF i = 0 THEN s
        ELSE SubSeq(s, 1, i - 1) \o new \o SubSeq(s, i + Len(old), Len(s))

\* s.replace(old, new): every non-overlapping occurrence, leftmost first (old # "")
Replace(s, old, new) ==
    LET RECURSIVE R(_)
        R(i) == IF i > Len(s) THEN <<>>
                ELSE IF MatchAt(s, old, i) THEN new \o R(i + Len(old))
                ELSE <<s[i]>> \o R(i + 1)
    IN  R(1)

\* s.split(sep): the list of pieces (sep # "")
Split(s, sep) ==
    LET RECURSIVE P(_)
        P(i) == LET j == Find(s, sep, i)
                IN  IF j = 0 THEN <<SubSeq(s, i, Len(s))>>
                    ELSE <<SubSeq(s, i, j - 1)>> \o P(j + Len(sep))
    IN  P(1)

\* s.strip() for the blank character
Strip(s) ==
    LET keep == {i \in 1..Len(s) : s[i] # " "}
    IN  IF keep = {} THEN <<>>
        ELSE SubSeq(s, CHOOSE i \in keep : \A j \in keep : i <= j,
                       CHOOSE i \in keep : \A j \in keep : i >= j)

\* a < b for str
StrLess(a, b) ==
    \E i \in 1..(Len(b)) :
        /\ i <= Len(a) + 1
        /\ SubSeq(a, 1, i - 1) = SubSeq(b, 1, i - 1)
        /\ (i = Len(a) + 1 \/ Ord(a[i]) < Ord(b[i]))

\* max(strs) for a non-empty collection
StrMax(strs) == CHOOSE m \in strs : \A o \in strs : o = m \/ StrLess(o, m)

IsLower(c) == c \in {"a", "b", "c", "d", "e", "f", "g", "h", "i", "j", "k", "l", "m", "n",
                     "o", "p", "r", "s", "t", "u", "w", "x", "y", "z"}

IsUpper(c) == c \in {"A", "B", "D", "P", "W"}

IsDigit(c) == c \in {"1", "2", "3", "4", "5", "6", "7", "8", "9"}

Upper(c) ==
    CASE c = "a" -> "A" [] c = "b" -> "B" [] c = "d" -> "D" [] c = "p" -> "P"
      [] c = "w" -> "W" [] OTHER -> c

Lower(c) ==
    CASE c = "A" -> "a" [] c = "B" -> "b" [] c = "D" -> "d" [] c = "P" -> "p"
      [] c = "W" -> "w" [] OTHER -> c

\* s.title(): a cased character is upper-cased after an uncased one, lower-cased after a cased one
Title(s) ==
    [i \in 1..Len(s) |->
        IF i > 1 /\ (IsLower(s[i - 1]) \/ IsUpper(s[i - 1])) THEN Lower(s[i]) ELSE Upper(s[i])]

\* s.isidentifier()
IsIdentifier(s) ==
    /\ Len(s) > 0
    /\ ~IsDigit(s[1])
    /\ \A i \in 1..Len(s) : IsLower(s[i]) \/ IsUpper(s[i]) \/ IsDigit(s[i]) \/ s[i] = "_"

\* posixpath.join(a, b)
Join2(a, b) ==
    IF StartsWith(b, <<"/">>) THEN b
    ELSE IF a = <<>> \/ EndsWith(a, <<"/">>) THEN a \o b
    ELSE a \o <<"/">> \o b

\* posixpath.join(a, b, c)
Join3(a, b, c) == Join2(Join2(a, b), c)

\* posixpath.normpath on the absolute and relative paths without '.', '..' or
\* doubled separators that the model passes: trailing separators go.
NormPath(p) ==
    IF Len(p) > 1 /\ EndsWith(p, <<"/">>) THEN DropLast(p, 1) ELSE p

\* posixpath.dirname
DirName(p) ==
    LET slashes == {i \in 1..Len(p) : p[i] = "/"}
        last == CHOOSE i \in slashes : \A j \in slashes : i >= j
    IN  IF slashes = {} THEN <<>>
        ELSE IF last = 1 THEN <<"/">>
        ELSE SubSeq(p, 1, last - 1)

\* posixpath.basename
BaseName(p) ==
    LET slashes == {i \in 1..Len(p) : p[i] = "/"}
    IN  IF slashes = {} THEN p
        ELSE SubSeq(p, 1 + (CHOOSE i \in slashes : \A j \in slashes : i >= j), Len(p))


---------------------------------------------------------------------------
(* String constants of the command.                                        *)

\* the app_or_project argument Command.handle passes to the base handle
app_or_project == <<"f", "u", "n", "c", "t", "i", "o", "n">>

\* function_tools.management.consts.PARAMETERS_DIALOG_WINDOW
PARAMETERS_DIALOG_WINDOW == <<"P", "a", "r", "a", "m", "e", "t", "e", "r", "s", "D", "i", "a", "l", "o", "g", "W", "i", "n", "d", "o", "w">>

\* PatchedTemplateCommand.rewrite_template_suffixes
rewrite_template_suffixes ==
    << <<<<".", "p", "y", "-", "t", "p", "l">>, <<".", "p", "y">>>>,
       <<<<".", "j", "s", "-", "t", "p", "l">>, <<".", "j", "s">>>> >>

\* the suffixes of files the walk ignores
IgnoredSuffixes == {<<".", "p", "y", "o">>, <<".", "p", "y", "c">>, <<".", "p", "y", ".", "c", "l", "a", "s", "s">>}

\* the extensions Command.handle appends to options['extensions']
ExtraExtensions == <<<<"m", "d">>, <<"j", "s">>>>

\* the word _make_top_dir of Command looks for in the top directory's path
FunctionsWord == <<"f", "u", "n", "c", "t", "i", "o", "n", "s">>

PyCacheName == <<"_", "_", "p", "y", "c", "a", "c", "h", "e", "_", "_">>

FileScheme == <<"f", "i", "l", "e", ":", "/", "/">>

\* TemplateCommand.url_schemes, as far as the model's references go
UrlSchemes == {<<"h", "t", "t", "p">>}

\* function_tools.__path__[0], the parent of the conf directory
ConfDirParent == <<"/", "f", "t">>

\* os.getcwd()
Cwd == <<"/", "w", "/", "f", "u", "n", "c", "t", "i", "o", "n", "s">>

\* tempfile.gettempdir()
TempRoot == <<"/", "t", "m", "p">>

---------------------------------------------------------------------------
(* The filesystem: a function from absolute paths to entries.  A file's    *)
(* data is a sequence of strings standing for its bytes.                   *)

Dir == [kind |-> "dir", data |-> <<>>]

File(data) == [kind |-> "file", data |-> data]

\* os.path.exists
Exists(f, p) == p \in DOMAIN f

\* os.path.isdir
IsDir(f, p) == p \in DOMAIN f /\ f[p].kind = "dir"

\* os.path.isfile
IsFile(f, p) == p \in DOMAIN f /\ f[p].kind = "file"

\* the entries directly inside directory d
Children(f, d) == {p \in DOMAIN f : p # d /\ DirName(p) = d}

\* p is d or lies below d
Under(p, d) == p = d \/ StartsWith(p, IF d = <<"/">> THEN d ELSE d \o <<"/">>)

\* open(p, 'w') and shutil.copyfile(_, p) can create or truncate p
Writable(f, p) == IsDir(f, DirName(p)) /\ ~IsDir(f, p)

\* os.mkdir(p) succeeds
CanMkdir(f, p) == IsDir(f, DirName(p)) /\ ~Exists(f, p)

\* A template tree: entries relative to the tree's root.
TreeDir(rel) == [rel |-> rel, entry |-> Dir]

TreeFile(rel) == [rel |-> rel, entry |-> File(<<"template:">> \o rel)]

\* the tree laid out below directory base (base itself included)
Materialize(tree, base) ==
    [p \in {base} \cup {Join2(base, e.rel) : e \in tree} |->
        IF p = base THEN Dir
        ELSE (CHOOSE e \in tree : Join2(base, e.rel) = p).entry]

\* a chain of directories
Dirs(ps) == [p \in ps |-> Dir]

---------------------------------------------------------------------------
(* The bounded universe of invocations and environments.                   *)

\* how many times the command is run with the same arguments
MaxRuns == 2

\* how many entries sys.path holds at most
MaxSysPath == 2

PlaceHolder == app_or_project \o <<"_", "n", "a", "m", "e">>

TreeIds == {"basic", "dialog", "dialogdir", "suffix", "collide", "empty"}

Tree(id) ==
    CASE id = "basic" ->
            { TreeFile(PlaceHolder \o <<".", "p", "y", "-", "t", "p", "l">>),
              TreeFile(PARAMETERS_DIALOG_WINDOW \o <<".", "j", "s">>),
              TreeFile(<<"r", "e", "a", "d", "m", "e">>),
              TreeFile(<<"b", ".", "p", "y", "c">>),
              TreeDir(PlaceHolder \o <<"_">> \o PlaceHolder),
              TreeFile(PlaceHolder \o <<"_">> \o PlaceHolder \o <<"/", "x", "_">> \o PlaceHolder \o <<".", "t", "x", "t">>),
              TreeDir(<<".", "g", "i", "t">>),
              TreeFile(<<".", "g", "i", "t", "/", "c">>) }
      [] id = "dialog" ->
            { TreeFile(PARAMETERS_DIALOG_WINDOW \o <<".", "j", "s">>) }
      [] id = "dialogdir" ->
            { TreeDir(PARAMETERS_DIALOG_WINDOW),
              TreeFile(PARAMETERS_DIALOG_WINDOW \o <<"/", "a", ".", "j", "s">>),
              TreeDir(PyCacheName),
              TreeFile(PyCacheName \o <<"/", "c">>) }
      [] id = "suffix" ->
            { TreeFile(<<"a", ".", "p", "y", "-", "t", "p", "l", ".", "p", "y", "-", "t", "p", "l">>),
              TreeFile(<<"b", ".", "j", "s", "-", "t", "p", "l">>),
              TreeFile(<<"c", ".", "j", "s", "-", "t", "p", "l", ".", "p", "y", "-", "t", "p", "l">>),
              TreeFile(<<"d", ".", "t", "p", "l">>) }
      [] id = "collide" ->
            { TreeFile(<<"a", ".", "p", "y", "-", "t", "p", "l">>),
              TreeFile(<<"a", ".", "p", "y">>) }
      [] OTHER -> {}

Names == {<<"a", "b">>, <<"a", "_", "b">>, <<"a", "-", "b">>, PARAMETERS_DIALOG_WINDOW}

PkgDir == Cwd \o <<"/", "p", "k", "g">>

Targets == {None, PkgDir, <<"/", "w", "/", "m", "i", "s", "c">>, Cwd \o <<"/", "n", "o", "d", "i", "r">>}

LocalTemplate == <<"/", "t">>

ArchivePath == <<"/", "a", ".", "z", "i", "p">>

TemplateRefs ==
    { None, LocalTemplate, LocalTemplate \o <<"/">>, FileScheme \o LocalTemplate,
      <<"/", "n", "o", "p", "e">>, ArchivePath, <<"h", "t", "t", "p", ":", "/", "/", "h", "/", "a", ".", "z", "i", "p">> }

\* what the target location holds before the first run
PreIds == {"clean", "taken", "user_dialog", "user_py"}

Pre(id) ==
    CASE id = "taken" -> Dirs({Cwd \o <<"/", "a", "b">>})
      [] id = "user_dialog" ->
            (PkgDir \o <<"/", "A", "b", "P", "a", "r", "a", "m", "e", "t", "e", "r", "s", "D", "i", "a", "l", "o", "g", "W", "i", "n", "d", "o", "w", ".", "j", "s">>) :> File(<<"user">>)
      [] id = "user_py" ->
            (PkgDir \o <<"/", "a", "b", ".", "p", "y">>) :> File(<<"user">>)
      [] OTHER -> Dirs({})

SysPathPool ==
    { <<>>, <<"/", "w">>, Cwd, <<"/", "f", "u", "n", "c", "t", "i", "o", "n", "s">>, PkgDir, <<"s">> }

SysPaths == {sp \in SUBSET SysPathPool : Cardinality(sp) <= MaxSysPath}

DefaultInvocation ==
    [ name |-> <<"a", "b">>, directory |-> None, template |-> LocalTemplate,
      extensions |-> <<<<"p", "y">>>>, files |-> <<>>, is_parameterized |-> FALSE,
      function_type |-> <<"s", "y", "n", "c">>,
      tree |-> "basic", pre |-> "clean", builtin |-> TRUE, sys_path |-> {<<"/", "w">>} ]

\* the walk over every tree, with and without a target, over clean and used targets
WalkInvocations ==
    { [DefaultInvocation EXCEPT !.tree = t, !.directory = d, !.is_parameterized = ip,
                                !.pre = pre, !.extensions = x[1], !.files = x[2]] :
        t \in TreeIds, d \in {None, PkgDir}, ip \in BOOLEAN, pre \in PreIds,
        x \in { << <<<<"p", "y">>>>, <<>> >>, << <<<<"p", "y", ",", " ", "r", "s", "t">>>>, <<<<"r", "e", "a", "d", "m", "e", " ", ",", "x">>>> >> } }

\* every template reference, with the built-in template present or not
TemplateInvocations ==
    { [DefaultInvocation EXCEPT !.template = tpl, !.builtin = b, !.directory = d,
                                !.tree = t, !.function_type = ft, !.pre = pre] :
        tpl \in TemplateRefs, b \in BOOLEAN, d \in {None, PkgDir},
        t \in {"basic", "dialog"}, ft \in {<<"s", "y", "n", "c">>, <<"a", "s", "y", "n", "c">>}, pre \in {"clean", "user_py"} }

\* every name and target
NameInvocations ==
    { [DefaultInvocation EXCEPT !.name = n, !.directory = d, !.is_parameterized = ip] :
        n \in Names, d \in Targets, ip \in BOOLEAN }

\* every sys.path
PathInvocations ==
    { [DefaultInvocation EXCEPT !.name = n, !.directory = d, !.sys_path = sp,
                                !.tree = "empty"] :
        n \in {<<"a", "b">>, <<"a", "_", "b">>}, d \in {None, PkgDir}, sp \in SysPaths }

Invocations ==
    WalkInvocations \cup TemplateInvocations \cup NameInvocations \cup PathInvocations

\* TemplateCommand.handle_template with template None: <conf parent>/conf/<base_subdir>
BuiltinTemplateDir(function_type) ==
    Join3(ConfDirParent, <<"c", "o", "n", "f">>, app_or_project \o <<"_">> \o function_type \o <<"_", "t", "e", "m", "p", "l", "a", "t", "e">>)

\* the disk before the first run of invocation inv
InitialFs(inv) ==
    LET base == Dirs({<<"/">>, <<"/", "w">>, Cwd, PkgDir, <<"/", "w", "/", "m", "i", "s", "c">>, TempRoot})
        tpl == IF inv.template = None
               THEN IF inv.builtin
                    THEN Materialize(Tree(inv.tree), BuiltinTemplateDir(inv.function_type))
                         @@ Dirs({ConfDirParent, Join2(ConfDirParent, <<"c", "o", "n", "f">>)})
                    ELSE Dirs({ConfDirParent, Join2(ConfDirParent, <<"c", "o", "n", "f">>)})
               ELSE IF inv.template = ArchivePath
               THEN ArchivePath :> File(<<"archive", inv.tree>>)
               ELSE IF NormPath(inv.template) \in {LocalTemplate, FileScheme \o LocalTemplate}
               THEN Materialize(Tree(inv.tree), LocalTemplate)
               ELSE Dirs({})
    IN  Pre(inv.pre) @@ tpl @@ base

---------------------------------------------------------------------------
(* State.                                                                  *)

VARIABLES
    fs,        \* the disk
    options,   \* the options dict of the running invocation
    env,       \* what the process finds: sys.path, the remote archive, its arguments
    pc,        \* the stage handle has reached
    err,       \* the exception that ended the run, "none" while there is none
    run,       \* how many times the command has been started
    self,      \* the command object's fields
    walk,      \* the position of the os.walk loop of _create_package_by_template
    hist       \* what this run has done so far (kept for the properties only)

vars == <<fs, options, env, pc, err, run, self, walk, hist>>

\* a list-valued field that is still None
NoneList == <<None>>

\* PatchedTemplateCommand.__init__
InitSelf ==
    [ name |-> None, paths_to_remove |-> NoneList, base_name |-> None,
      base_subdir |-> None, camel_case_value |-> None, url_name |-> None,
      extra_files |-> NoneList, extensions |-> {None}, top_dir_path |-> None,
      python_path_value |-> None, context |-> None ]

NoWalk ==
    [ template_dir |-> None, stack |-> <<>>, root |-> None, relative_dir |-> None,
      files |-> {} ]

InitHist(f, previous) ==
    [ fs0 |-> f, created |-> {}, generated |-> {}, skipped |-> {}, walked |-> {},
      ignored |-> {}, cleaned |-> FALSE, previous |-> previous ]

Argv(inv) ==
    [ name |-> inv.name, directory |-> inv.directory, template |-> inv.template,
      extensions |-> inv.extensions, files |-> inv.files,
      is_parameterized |-> inv.is_parameterized, function_type |-> inv.function_type ]

Init ==
    \E inv \in Invocations :
        /\ fs = InitialFs(inv)
        /\ options = Argv(inv)
        /\ env = [sys_path |-> inv.sys_path, remote |-> inv.tree, argv |-> Argv(inv)]
        /\ pc = "Init"
        /\ err = "none"
        /\ run = 1
        /\ self = InitSelf
        /\ walk = NoWalk
        /\ hist = InitHist(InitialFs(inv), {})

Range(s) == {s[i] : i \in 1..Len(s)}

\* the disk without the paths in gone
Without(f, gone) == [p \in DOMAIN f \ gone |-> f[p]]

\* An exception leaves handle: with cleanup of the queued paths on the way out.
RaiseWithCleanup(e, f, s, h) ==
    /\ pc' = "Failed"
    /\ err' = e
    /\ fs' = Without(f, {p \in DOMAIN f : \E q \in Range(s.paths_to_remove) : Under(p, q)})
    /\ self' = s
    /\ hist' = h
    /\ UNCHANGED <<options, env, run, walk>>

\* An exception leaves handle: nothing catches it, the run ends where it is,
\* with the disk f and the fields s the failing step had reached.
Raise(e, f, s, h) ==
    /\ pc' = "Failed"
    /\ err' = e
    /\ fs' = f
    /\ self' = s
    /\ hist' = h
    /\ UNCHANGED <<options, env, run, walk>>

---------------------------------------------------------------------------
(* Command.handle up to and including _prepare_parameters.                 *)

\* ''.join(x for x in name.title() if x != '_')
CamelCase(name) == SelectSeq(Title(name), LAMBDA x : x # "_")

PrepareParameters ==
    /\ pc = "Init"
    /\ LET opts == [options EXCEPT !.extensions = @ \o ExtraExtensions]
           s == [self EXCEPT
                    !.name = opts.name,
                    !.paths_to_remove = <<>>,
                    !.base_name = app_or_project \o <<"_", "n", "a", "m", "e">>,
                    !.base_subdir = app_or_project \o <<"_">> \o opts.function_type \o <<"_", "t", "e", "m", "p", "l", "a", "t", "e">>,
                    !.camel_case_value = CamelCase(opts.name)]
       IN  /\ options' = opts
           /\ IF IsIdentifier(opts.name)
              THEN /\ self' = [s EXCEPT !.url_name = Replace(opts.name, <<"_">>, <<"-">>)]
                   /\ pc' = "ParametersPrepared"
                   /\ UNCHANGED <<fs, err, hist>>
              ELSE /\ pc' = "Failed"
                   /\ err' = "CommandError: invalid name"
                   /\ self' = s
                   /\ UNCHANGED <<fs, hist>>
    /\ UNCHANGED <<env, run, walk>>

---------------------------------------------------------------------------
(* _make_top_dir, base and Command.                                        *)

MakeTopDir ==
    /\ pc = "ParametersPrepared"
    /\ LET target == options.directory
           top == IF target = None THEN Join2(Cwd, self.name) ELSE NormPath(target)
           s == [self EXCEPT !.top_dir_path = top]
           made == (top :> Dir) @@ fs
           h == [hist EXCEPT !.created = @ \cup {top}]
       IN  IF target = None /\ Exists(fs, top)
           THEN Raise("CommandError: already exists", fs, s, hist)
           ELSE IF target # None /\ ~Exists(fs, top)
           THEN Raise("CommandError: destination does not exist", fs, s, hist)
           ELSE IF ~Contains(top, FunctionsWord)
           THEN Raise("RuntimeError", IF target = None THEN made ELSE fs, s,
                      IF target = None THEN h ELSE hist)
           ELSE /\ pc' = "TopDirCreated"
                /\ self' = s
                /\ fs' = IF target = None THEN made ELSE fs
                /\ hist' = IF target = None THEN h ELSE hist
                /\ UNCHANGED <<options, env, run, walk, err>>

---------------------------------------------------------------------------
(* _prepare_top_module_python_path, _prepare_extra_files,                  *)
(* _prepare_extensions, _prepare_context.                                  *)

\* the list comprehension over sys.path
CandidatePaths(top_dir_path, sys_path, name) ==
    {path_item \in sys_path :
        /\ Contains(top_dir_path, path_item)
        /\ path_item \o <<"/">> \o name # top_dir_path}

\* _prepare_top_module_python_path: the value stored, or the exception
TopModulePythonPath(top_dir_path, sys_path, name) ==
    LET paths == CandidatePaths(top_dir_path, sys_path, name)
        max_sys_path == StrMax(paths)
        pieces == Split(top_dir_path, max_sys_path \o <<"/">>)
    IN  IF paths = {} THEN [ok |-> FALSE, err |-> "ValueError", value |-> None]
        ELSE IF Len(pieces) < 2 THEN [ok |-> FALSE, err |-> "IndexError", value |-> None]
        ELSE [ok |-> TRUE, err |-> "none", value |-> Replace(pieces[2], <<"/">>, <<".">>)]

RECURSIVE Flatten(_)
\* the concatenation of a list of lists
Flatten(ls) == IF ls = <<>> THEN <<>> ELSE Head(ls) \o Flatten(Tail(ls))

\* _prepare_extra_files
ExtraFiles(files) ==
    Flatten([i \in 1..Len(files) |->
        LET parts == Split(files[i], <<",">>)
        IN  [j \in 1..Len(parts) |-> Strip(parts[j])]])

\* django.core.management.utils.handle_extensions
HandleExtensions(extensions) ==
    LET ext_list == Flatten([i \in 1..Len(extensions) |->
                        Split(Replace(extensions[i], <<" ">>, <<>>), <<",">>)])
    IN  {IF StartsWith(e, <<".">>) THEN e ELSE <<".">> \o e : e \in Range(ext_list)}

\* _prepare_context of Command: what a rendered template can read
ContextOf(s, opts) ==
    <<"function_name=">> \o s.name \o <<"function_url_name=">> \o s.url_name
    \o <<"function_directory=">> \o s.top_dir_path
    \o <<"camel_case_function_name=">> \o s.camel_case_value
    \o <<"function_python_path=">> \o s.python_path_value
    \o <<"is_parameterized=", IF opts.is_parameterized THEN "True" ELSE "False">>

PrepareContext ==
    /\ pc = "TopDirCreated"
    /\ LET r == TopModulePythonPath(self.top_dir_path, env.sys_path, self.name)
           s1 == [self EXCEPT !.python_path_value = r.value,
                              !.extra_files = ExtraFiles(options.files),
                              !.extensions = HandleExtensions(options.extensions)]
       IN  IF ~r.ok
           THEN Raise(r.err, fs, self, hist)
           ELSE /\ self' = [s1 EXCEPT !.context = ContextOf(s1, options)]
                /\ pc' = "ContextBuilt"
                /\ UNCHANGED <<fs, options, env, run, walk, err, hist>>

---------------------------------------------------------------------------
(* handle_template, with TemplateCommand.download and .extract.            *)

\* tempfile.mkdtemp(suffix=...): a directory name nothing on the disk has
MkdTemp(f, suffix) ==
    LET fresh == {i \in 1..9 : ~Exists(f, Join2(TempRoot, <<Alphabet[5 + i]>> \o suffix))}
    IN  Join2(TempRoot, <<Alphabet[5 + (CHOOSE i \in fresh : \A j \in fresh : i <= j)]>> \o suffix)

\* TemplateCommand.is_url
IsUrl(template) ==
    /\ Contains(template, <<":">>)
    /\ Split(template, <<":">>)[1] \in UrlSchemes

\* the file name TemplateCommand.download saves the archive under
DownloadName(url) ==
    LET parts == Split(url, <<"/">>)
    IN  parts[Len(parts)]

\* the walk starts: os.walk(template_dir) yields nothing for what is no directory
StartWalk(f, template_dir) ==
    [ template_dir |-> template_dir,
      stack |-> IF IsDir(f, template_dir) THEN <<template_dir>> ELSE <<>>,
      root |-> None, relative_dir |-> None, files |-> {} ]

\* TemplateCommand.extract(filename) from the state (f, s): the temporary
\* directory is made and queued, then the archive unpacks into it or does not
Extract(f, s, h, filename, unpacks) ==
    LET tempdir == MkdTemp(f, <<"_", "e", "x", "t", "r", "a", "c", "t">>)
        f1 == (tempdir :> Dir) @@ f
        s1 == [s EXCEPT !.paths_to_remove = Append(@, tempdir)]
        h1 == [h EXCEPT !.created = @ \cup {tempdir}]
        isArchive == Len(f[filename].data) = 2 /\ f[filename].data[1] = "archive"
        unpacked == Materialize(Tree(f[filename].data[2]), tempdir)
    IN  IF IsFile(f, filename) /\ isArchive /\ unpacks
        THEN /\ fs' = unpacked @@ f1
             /\ self' = s1
             /\ hist' = [h1 EXCEPT !.created = @ \cup DOMAIN unpacked]
             /\ walk' = StartWalk(unpacked @@ f1, tempdir)
             /\ pc' = "Walking"
             /\ UNCHANGED <<options, env, run, err>>
        ELSE Raise("CommandError: couldn't extract", f1, s1, h1)

HandleTemplate ==
    /\ pc = "ContextBuilt"
    /\ LET template == options.template
           stripped == IF StartsWith(template, FileScheme) THEN From(template, 7) ELSE template
           expanded_template == NormPath(stripped)
       IN  IF template = None
           THEN /\ walk' = StartWalk(fs, Join3(ConfDirParent, <<"c", "o", "n", "f">>, self.base_subdir))
                /\ pc' = "Walking"
                /\ UNCHANGED <<fs, options, env, run, err, self, hist>>
           ELSE IF IsDir(fs, expanded_template)
           THEN /\ walk' = StartWalk(fs, expanded_template)
                /\ pc' = "Walking"
                /\ UNCHANGED <<fs, options, env, run, err, self, hist>>
           ELSE IF IsUrl(stripped)
           THEN \E fetched \in BOOLEAN, unpacks \in BOOLEAN :
                    LET tempdir == MkdTemp(fs, <<"_", "d", "o", "w", "n", "l", "o", "a", "d">>)
                        the_path == Join2(tempdir, DownloadName(stripped))
                        f1 == (tempdir :> Dir) @@ fs
                        s1 == [self EXCEPT !.paths_to_remove = Append(@, tempdir)]
                        h1 == [hist EXCEPT !.created = @ \cup {tempdir}]
                        f2 == (the_path :> File(<<"archive", env.remote>>)) @@ f1
                        h2 == [h1 EXCEPT !.created = @ \cup {the_path}]
                    IN  IF fetched
                        THEN Extract(f2, s1, h2, the_path, unpacks)
                        ELSE Raise("CommandError: couldn't download", f1, s1, h1)
           ELSE IF Exists(fs, expanded_template)
           THEN \E unpacks \in BOOLEAN : Extract(fs, self, hist, expanded_template, unpacks)
           ELSE Raise("CommandError: couldn't handle template", fs, self, hist)

---------------------------------------------------------------------------
(* _create_package_by_template: the os.walk loop.                          *)

\* path_rest.replace(self.base_name, self.name), the first occurrence only
RelativeDirFirstOnly(path_rest, base_name, name) == ReplaceFirstOnly(path_rest, base_name, name)

\* relative_dir = path_rest.replace(self.base_name, self.name)
RelativeDir(path_rest, base_name, name) == Replace(path_rest, base_name, name)

\* every permutation of a finite set, as sequences
Orders(S) ==
    {o \in [1..Cardinality(S) -> S] : \A i, j \in 1..Cardinality(S) : i # j => o[i] # o[j]}

\* the loop body up to the file loop, for the next directory os.walk yields
WalkDir ==
    /\ pc = "Walking"
    /\ walk.files = {}
    /\ walk.stack # <<>>
    /\ LET root == Head(walk.stack)
           prefix_length == Len(walk.template_dir) + 1
           path_rest == From(root, prefix_length)
           relative_dir == RelativeDir(path_rest, self.base_name, self.name)
           target_dir == Join2(self.top_dir_path, relative_dir)
           mkdir == relative_dir # <<>> /\ ~Exists(fs, target_dir)
           dirs == {BaseName(p) : p \in {q \in Children(fs, root) : IsDir(fs, q)}}
           kept == {d \in dirs : ~StartsWith(d, <<".">>) /\ d # PyCacheName}
           files == {BaseName(p) : p \in {q \in Children(fs, root) : IsFile(fs, q)}}
           h == [hist EXCEPT !.walked = @ \cup {[root |-> root, path_rest |-> path_rest,
                                                 relative_dir |-> relative_dir]}]
       IN  IF mkdir /\ ~CanMkdir(fs, target_dir)
           THEN Raise("OSError", fs, self, hist)
           ELSE \E order \in Orders(kept) :
                /\ fs' = IF mkdir THEN (target_dir :> Dir) @@ fs ELSE fs
                /\ hist' = IF mkdir THEN [h EXCEPT !.created = @ \cup {target_dir}] ELSE h
                /\ walk' = [walk EXCEPT
                               !.root = root,
                               !.relative_dir = relative_dir,
                               !.files = files,
                               !.stack = [i \in 1..Cardinality(kept) |-> Join2(root, order[i])]
                                         \o Tail(walk.stack)]
                /\ UNCHANGED <<options, env, pc, err, run, self>>

\* the suffix loop without its break and with every occurrence rewritten
RewriteSuffixEverywhere(new_path) ==
    Replace(Replace(new_path, rewrite_template_suffixes[1][1], rewrite_template_suffixes[1][2]),
            rewrite_template_suffixes[2][1], rewrite_template_suffixes[2][2])

\* the loop over rewrite_template_suffixes of _prepare_new_path_file
RewriteSuffix(new_path) ==
    LET matching == {i \in 1..Len(rewrite_template_suffixes) :
                        EndsWith(new_path, rewrite_template_suffixes[i][1])}
        first == CHOOSE i \in matching : \A j \in matching : i <= j
    IN  IF matching = {} THEN new_path
        ELSE DropLast(new_path, Len(rewrite_template_suffixes[first][1]))
             \o rewrite_template_suffixes[first][2]

\* path.join(self._top_dir_path, relative_dir, filename.replace(self.base_name, self.name))
JoinedPath(filename, relative_dir, s) ==
    Join3(s.top_dir_path, relative_dir, Replace(filename, s.base_name, s.name))

\* PatchedTemplateCommand._prepare_new_path_file, before its existence check
BaseNewPath(filename, relative_dir, s) == RewriteSuffix(JoinedPath(filename, relative_dir, s))

\* Command._prepare_new_path_file after the base method returned new_path
CommandNewPath(new_path, s, opts) ==
    IF Contains(new_path, PARAMETERS_DIALOG_WINDOW)
    THEN IF opts.is_parameterized
         THEN Replace(new_path, PARAMETERS_DIALOG_WINDOW,
                      s.camel_case_value \o PARAMETERS_DIALOG_WINDOW)
         ELSE None
    ELSE new_path

\* the template engine: Engine().from_string(content).render(context)
Render(content, context) == <<"render(">> \o content \o <<"|">> \o context \o <<")">>

\* _sort_imports
SortImports(content) == <<"isort(">> \o content \o <<")">>

\* the test of _render_file, on the template's own name instead of new_path
ShouldRenderByOldName(new_path, filename, s) ==
    \/ \E e \in s.extensions : EndsWith(filename, e)
    \/ filename \in Range(s.extra_files)

\* new_path.endswith(self.extensions) or filename in self.extra_files
ShouldRender(new_path, filename, s) ==
    \/ \E e \in s.extensions : EndsWith(new_path, e)
    \/ filename \in Range(s.extra_files)

\* what PatchedTemplateCommand._render_file writes to new_path (the permission
\* bits it copies afterwards are no part of the state: a failure there is a
\* notice, not an error)
WrittenData(f, new_path, old_path, filename, s) ==
    IF ShouldRender(new_path, filename, s)
    THEN LET content == Render(f[old_path].data, s.context)
         IN  IF EndsWith(new_path, <<".", "p", "y">>) THEN SortImports(content) ELSE content
    ELSE f[old_path].data

\* one iteration of the file loop
WalkFile ==
    /\ pc = "Walking"
    /\ \E filename \in walk.files :
        LET rest == [walk EXCEPT !.files = @ \ {filename}]
            old_path == Join2(walk.root, filename)
            prepared == BaseNewPath(filename, walk.relative_dir, self)
            new_path == CommandNewPath(prepared, self, options)
            record == [root |-> walk.root, filename |-> filename,
                       relative_dir |-> walk.relative_dir, old_path |-> old_path,
                       joined |-> JoinedPath(filename, walk.relative_dir, self),
                       prepared |-> prepared, new_path |-> new_path,
                       source |-> fs[old_path].data,
                       existed |-> new_path # None /\ Exists(fs, new_path)]
        IN  IF \E suffix \in IgnoredSuffixes : EndsWith(filename, suffix)
            THEN /\ walk' = rest
                 /\ hist' = [hist EXCEPT !.ignored = @ \cup {old_path}]
                 /\ UNCHANGED <<fs, options, env, pc, err, run, self>>
            ELSE IF Exists(fs, prepared)
            THEN Raise("CommandError: already exists", fs, self, hist)
            ELSE IF new_path = None
            THEN /\ walk' = rest
                 /\ hist' = [hist EXCEPT !.skipped = @ \cup {record}]
                 /\ UNCHANGED <<fs, options, env, pc, err, run, self>>
            ELSE IF ~Writable(fs, new_path)
            THEN Raise("OSError", fs, self, hist)
            ELSE /\ fs' = (new_path :> File(WrittenData(fs, new_path, old_path, filename, self)))
                          @@ fs
                 /\ walk' = rest
                 /\ hist' = [hist EXCEPT !.generated = @ \cup {record},
                                         !.created = @ \cup {new_path}]
                 /\ UNCHANGED <<options, env, pc, err, run, self>>

\* os.walk is exhausted
WalkEnd ==
    /\ pc = "Walking"
    /\ walk.files = {}
    /\ walk.stack = <<>>
    /\ pc' = "TreeWalked"
    /\ UNCHANGED <<fs, options, env, err, run, self, walk, hist>>

---------------------------------------------------------------------------
(* _remove_paths.                                                          *)

\* a removal of the directory entry alone, its content left behind
RmTreeShallow(f, p) == Without(f, {p})

\* shutil.rmtree(p) of an existing directory
RmTree(f, p) == Without(f, {q \in DOMAIN f : Under(q, p)})

RECURSIVE RemovePathsFrom(_, _)
\* the loop of _remove_paths: the disk it leaves, and whether it got through
RemovePathsFrom(f, paths) ==
    IF paths = <<>> THEN [fs |-> f, ok |-> TRUE]
    ELSE LET path_to_remove == Head(paths)
         IN  IF IsFile(f, path_to_remove)
             THEN RemovePathsFrom(Without(f, {path_to_remove}), Tail(paths))
             ELSE IF IsDir(f, path_to_remove)
             THEN RemovePathsFrom(RmTree(f, path_to_remove), Tail(paths))
             ELSE [fs |-> f, ok |-> FALSE]

RemovePaths ==
    /\ pc = "TreeWalked"
    /\ LET r == RemovePathsFrom(fs, self.paths_to_remove)
           h == [hist EXCEPT !.cleaned = TRUE]
       IN  IF r.ok
           THEN /\ fs' = r.fs
                /\ hist' = h
                /\ pc' = "Done"
                /\ UNCHANGED <<options, env, err, run, self, walk>>
           ELSE Raise("OSError", r.fs, self, h)

---------------------------------------------------------------------------
(* The command is started again with the arguments of the successful run.  *)

Rerun ==
    /\ pc = "Done"
    /\ run < MaxRuns
    /\ run' = run + 1
    /\ pc' = "Init"
    /\ err' = "none"
    /\ options' = env.argv
    /\ self' = InitSelf
    /\ walk' = NoWalk
    /\ hist' = InitHist(fs, hist.generated)
    /\ UNCHANGED <<fs, env>>

Next ==
    \/ PrepareParameters
    \/ MakeTopDir
    \/ PrepareContext
    \/ HandleTemplate
    \/ WalkDir
    \/ WalkFile
    \/ WalkEnd
    \/ RemovePaths
    \/ Rerun

Spec == Init /\ [][Next]_vars

---------------------------------------------------------------------------
(* Properties.                                                             *)

\* every record of a template file the walk took through _prepare_new_path_file
Processed == hist.generated \cup hist.skipped

RECURSIVE JoinWith(_, _)
\* sep.join(parts) for a non-empty list
JoinWith(parts, sep) ==
    IF Len(parts) = 1 THEN parts[1] ELSE parts[1] \o sep \o JoinWith(Tail(parts), sep)

\* s with every occurrence of the placeholder replaced by the name, computed
\* by cutting s at the placeholders and gluing the pieces with the name
Substituted(s) == JoinWith(Split(s, PlaceHolder), self.name)

\* the template directory of a record, relative to the template's root
TemplateRelDir(root) == From(root, Len(walk.template_dir) + 1)

\* the destination directory that corresponds to a template directory
DestinationDir(root) ==
    IF TemplateRelDir(root) = <<>> THEN self.top_dir_path
    ELSE self.top_dir_path \o <<"/">> \o Substituted(TemplateRelDir(root))

\* C1: no template file is written to a path that exists on disk at the moment
\* of the write: the run fails with the conflict error instead.
C1_NeverWritesOverExisting ==
    \A g \in hist.generated : ~g.existed

\* C2: a run started again after a successful run ends failed with the
\* conflict error and writes no file (stated here for a first run that wrote
\* at least one file).
C2_RerunFailsAndWritesNothing ==
    (run >= 2 /\ hist.previous # {}) =>
        /\ hist.generated = {}
        /\ pc # "Done"
        /\ pc = "Failed" => err = "CommandError: already exists"

\* C3: a generated file holds the rendered template if its destination path
\* ends with a configured extension or its source file name is in the explicit
\* list, and is a byte-identical copy of its source otherwise.
C3_RenderedIffExtensionOrListed ==
    \A g \in hist.generated :
        Exists(fs, g.new_path) =>
            LET selected ==
                    \/ \E e \in self.extensions : EndsWith(g.new_path, e)
                    \/ \E i \in 1..Len(self.extra_files) : self.extra_files[i] = g.filename
                rendered == Render(g.source, self.context)
            IN  IF selected
                THEN fs[g.new_path].data \in {rendered, SortImports(rendered)}
                ELSE fs[g.new_path].data = g.source

C3_Witness ==
    /\ pc = "Done"
    /\ \E g \in hist.generated :
          /\ \E e \in self.extensions : EndsWith(g.new_path, e)
          /\ ~EndsWith(g.filename, <<".", "p", "y">>)
          /\ fs[g.new_path].data # g.source
    /\ \E g \in hist.generated :
          /\ \A e \in self.extensions : ~EndsWith(g.new_path, e)
          /\ g.filename \in Range(self.extra_files)
          /\ fs[g.new_path].data # g.source
    /\ \E g \in hist.generated : fs[g.new_path].data = g.source

\* C4: after a successful run no queued path is on disk, nor anything below a
\* queued directory, and no skipped optional file is on disk.
C4_QueuedPathsGoneAfterSuccess ==
    pc = "Done" =>
        /\ \A i \in 1..Len(self.paths_to_remove) :
              \A p \in DOMAIN fs : ~Under(p, self.paths_to_remove[i])
        /\ \A k \in hist.skipped : ~IsFile(fs, k.prepared)

C4_Witness ==
    /\ pc = "Done"
    /\ Len(self.paths_to_remove) = 2
    /\ \E p \in hist.created : \E i \in 1..2 :
          p # self.paths_to_remove[i] /\ Under(p, self.paths_to_remove[i])
    /\ hist.skipped # {}

\* the roots the claim takes as candidates: prefixes of the target directory,
\* without the root that the name alone extends to the target directory
C5_Candidates ==
    {root \in env.sys_path :
        /\ StartsWith(self.top_dir_path, root)
        /\ root \o <<"/">> \o self.name # self.top_dir_path}

\* C5: the import path stored is the part of the target directory after the
\* lexicographically greatest candidate root and its separator, with dots
\* for separators.
C5_ImportPathAfterGreatestPrefixRoot ==
    self.python_path_value # None =>
        /\ C5_Candidates = CandidatePaths(self.top_dir_path, env.sys_path, self.name)
        /\ LET root == StrMax(C5_Candidates)
               rest == From(self.top_dir_path, Len(root) + 1)
           IN  self.python_path_value = [i \in 1..Len(rest) |->
                                            IF rest[i] = "/" THEN "." ELSE rest[i]]

\* C6: when handle_template has returned, the directory it returned exists.
C6_TemplateDirExists ==
    pc = "Walking" => IsDir(fs, walk.template_dir)

\* C7: the parameterization flag touches only the file whose destination file
\* name contains the parameters-dialog token: without the flag that file alone
\* is left out, with the flag it is written in the same directory under its
\* name prefixed by the CamelCase name; every other file goes where the base
\* method put it.
C7_FlagTouchesOnlyTheDialogFile ==
    /\ \A k \in hist.skipped :
          /\ ~options.is_parameterized
          /\ Contains(BaseName(k.prepared), PARAMETERS_DIALOG_WINDOW)
    /\ \A g \in hist.generated :
          IF Contains(BaseName(g.prepared), PARAMETERS_DIALOG_WINDOW)
          THEN /\ options.is_parameterized
               /\ g.new_path = Join2(DirName(g.prepared),
                                     self.camel_case_value \o BaseName(g.prepared))
          ELSE g.new_path = g.prepared

\* C8: as long as the run has not reached _remove_paths nothing is deleted:
\* what was on disk when the run began, what the run created and what it
\* queued for removal are all on disk, in particular when the run has failed;
\* and a deletion has happened only after the walk was through.
C8_NothingDeletedBeforeCleanup ==
    /\ ~hist.cleaned =>
          /\ DOMAIN hist.fs0 \subseteq DOMAIN fs
          /\ hist.created \subseteq DOMAIN fs
          /\ self.paths_to_remove # NoneList =>
                \A i \in 1..Len(self.paths_to_remove) : Exists(fs, self.paths_to_remove[i])
    /\ hist.cleaned => walk.stack = <<>> /\ walk.files = {} /\ walk.template_dir # None

C8_Witness ==
    /\ pc = "Failed"
    /\ ~hist.cleaned
    /\ self.paths_to_remove # NoneList
    /\ Len(self.paths_to_remove) = 2
    /\ hist.generated # {}

\* C9: the destination path is rewritten once: a path ending in '.py-tpl' or
\* '.js-tpl' loses its final '-tpl' and nothing else, any other path is kept.
C9_SuffixRewrittenOnce ==
    \A g \in Processed :
        IF EndsWith(g.joined, <<".", "p", "y", "-", "t", "p", "l">>) \/ EndsWith(g.joined, <<".", "j", "s", "-", "t", "p", "l">>)
        THEN g.joined = g.prepared \o <<"-", "t", "p", "l">>
        ELSE g.prepared = g.joined

C9_Witness ==
    /\ \E g \in hist.generated :
          EndsWith(g.joined, <<".", "p", "y", "-", "t", "p", "l", ".", "p", "y", "-", "t", "p", "l">>) /\ EndsWith(g.prepared, <<".", "p", "y", "-", "t", "p", "l", ".", "p", "y">>)
    /\ \E g \in hist.generated :
          EndsWith(g.joined, <<".", "j", "s", "-", "t", "p", "l">>) /\ EndsWith(g.prepared, <<".", "j", "s">>)
    /\ \E g \in hist.generated : g.joined = g.prepared

\* C10: every template directory the walk enters is on disk under the target
\* with each placeholder in its path replaced by the name, and every template
\* file's destination is its substituted name inside the destination directory
\* of its template directory; a file the function kind's hook does not touch
\* is on disk there.
C10_PlaceholderReplacedInEveryPath ==
    /\ \A w \in hist.walked :
          /\ w.relative_dir = Substituted(w.path_rest)
          /\ Exists(fs, DestinationDir(w.root))
    /\ \A g \in Processed :
          g.joined = DestinationDir(g.root) \o <<"/">> \o Substituted(g.filename)
    /\ \A g \in hist.generated :
          g.new_path = g.prepared =>
              /\ DirName(g.new_path) = DestinationDir(g.root)
              /\ Exists(fs, g.new_path)

C10_Witness ==
    /\ pc = "Done"
    /\ \E w \in hist.walked :
          /\ Len(Split(w.path_rest, PlaceHolder)) = 3
          /\ IsDir(fs, DestinationDir(w.root))
    /\ \E g \in hist.generated :
          /\ Contains(g.filename, PlaceHolder)
          /\ g.relative_dir # <<>>
          /\ ~Contains(g.new_path, PlaceHolder)
          /\ Exists(fs, g.new_path)

=============================================================================
